---- MODULE Spec2Model ----
(***************************************************************************)
(* Model of the staged JSON validation pipeline (scripts/validate-json.js, *)
(* pipeline version): loadConfigStep, validateConfigStep,                  *)
(* validateFilesStep, normalizeStep and finalizeStep run by runPipeline    *)
(* over one shared context.  JSON documents are modelled as tagged values, *)
(* the file system as a function from resolved paths to file states.       *)
(***************************************************************************)
EXTENDS Integers, Sequences, FiniteSets, TLC

VARIABLES fsys, ctx, pc, status, ran, after, probed, reads, stdout, stderr, exitCode,
          orig

vars ==
  <<fsys, ctx, pc, status, ran, after, probed, reads, stdout, stderr, exitCode, orig>>

(***************************************************************************)
(* Bounds of the explored inputs.                                          *)
(***************************************************************************)
MaxFiles == 3
MaxFields == 2
MaxItems == 3
MaxRepeat == 3

(***************************************************************************)
(* JSON values as JSON.parse produces them, and `undefined`.               *)
(***************************************************************************)
Undefined == [k |-> "undefined"]
Null == [k |-> "null"]
Bool(b) == [k |-> "bool", b |-> b]
Num(n) == [k |-> "num", fin |-> TRUE, n |-> n]
\* JSON.parse("1e999") is Infinity: the one non-finite number a document can hold.
Infinity == [k |-> "num", fin |-> FALSE, n |-> 0]
Str(s) == [k |-> "str", s |-> s]
Arr(items) == [k |-> "arr", items |-> items]
Obj(props) == [k |-> "obj", props |-> props]

\* typeof value
TypeOf(v) ==
  CASE v.k = "undefined" -> "undefined"
    [] v.k = "bool" -> "boolean"
    [] v.k = "num" -> "number"
    [] v.k = "str" -> "string"
    [] OTHER -> "object"

\* !value
Falsy(v) ==
  \/ v.k \in {"undefined", "null"}
  \/ v.k = "bool" /\ ~v.b
  \/ v.k = "num" /\ v.fin /\ v.n = 0
  \/ v.k = "str" /\ v.s = ""

\* Array.isArray(value)
IsArray(v) == v.k = "arr"

\* !x || typeof x !== 'object' || Array.isArray(x)
NotPlainObject(v) == Falsy(v) \/ TypeOf(v) # "object" \/ IsArray(v)

\* Object.prototype.hasOwnProperty.call(item, key)
HasOwn(o, key) == o.k = "obj" /\ key \in DOMAIN o.props

\* item[key]
Get(o, key) == IF HasOwn(o, key) THEN o.props[key] ELSE Undefined

\* value.trim().length === 0, for the strings of the model
WhitespaceOnly == {"", " ", "  "}
TrimIsEmpty(s) == s \in WhitespaceOnly

\* Whether `${value}` yields a string.  An object with an own "toString" key
\* (never callable in parsed JSON) is left with Object.prototype.valueOf,
\* which returns the object: the conversion throws a TypeError.  An array is
\* joined, converting each element that is neither null nor undefined.
RECURSIVE CanToString(_)
CanToString(v) ==
  CASE v.k = "obj" -> ~HasOwn(v, "toString")
    [] v.k = "arr" ->
         \A i \in 1..Len(v.items) :
           v.items[i].k \in {"null", "undefined"} \/ CanToString(v.items[i])
    [] OTHER -> TRUE

RECURSIVE JoinStrings(_, _)
JoinStrings(ss, sep) ==
  IF Len(ss) = 0 THEN ""
  ELSE IF Len(ss) = 1 THEN ss[1]
  ELSE ss[1] \o sep \o JoinStrings(Tail(ss), sep)

\* `${value}` where CanToString(value)
RECURSIVE JsToString(_)
JsToString(v) ==
  CASE v.k = "undefined" -> "undefined"
    [] v.k = "null" -> "null"
    [] v.k = "bool" -> IF v.b THEN "true" ELSE "false"
    [] v.k = "num" -> IF v.fin THEN ToString(v.n) ELSE "Infinity"
    [] v.k = "str" -> v.s
    [] v.k = "obj" -> "[object Object]"
    [] v.k = "arr" ->
         JoinStrings(
           [i \in 1..Len(v.items) |->
              IF v.items[i].k \in {"null", "undefined"} THEN ""
              ELSE JsToString(v.items[i])], ",")

(***************************************************************************)
(* The address capability of the ethers library: getAddress returns the    *)
(* checksummed form of a valid address string and throws on anything else; *)
(* isAddress is "getAddress does not throw".                               *)
(***************************************************************************)
AddrLower == "0x5aaeb6053f3e94c9b9a09f33669435e7ef1beaed"
AddrChecksum == "0x5aAeb6053F3E94C9b9A09f33669435E7Ef1BeAed"
AddrUpper == "0x5AAEB6053F3E94C9B9A09F33669435E7EF1BEAED"
AddrBadSum == "0x5AaEb6053F3E94C9b9A09f33669435E7Ef1BeAed"
AddrZero == "0x0000000000000000000000000000000000000000"

Checksummed ==
  [s \in {AddrLower, AddrChecksum, AddrUpper, AddrZero} |->
     IF s = AddrZero THEN AddrZero ELSE AddrChecksum]

GetAddressThrows_MixedCase(v) ==
  ~(v.k = "str" /\ v.s \in DOMAIN Checksummed \ {AddrChecksum})

GetAddressThrows(v) == ~(v.k = "str" /\ v.s \in DOMAIN Checksummed)

getAddress(v) ==
  IF v.k = "str" /\ v.s \in DOMAIN Checksummed THEN Str(Checksummed[v.s]) ELSE v

isAddress(v) == ~GetAddressThrows(v)

isEvmAddress(v) == TypeOf(v) = "string" /\ isAddress(v)

(***************************************************************************)
(* Type validators                                                         *)
(***************************************************************************)
IsFiniteNumber(v) == TypeOf(v) = "number" /\ v.fin

allowedTypes ==
  {"string", "number", "boolean", "address",
   "nullableString", "nullableNumber", "nullableAddress"}

typeValidators(type, v) ==
  CASE type = "string" -> TypeOf(v) = "string"
    [] type = "number" -> IsFiniteNumber(v)
    [] type = "boolean" -> TypeOf(v) = "boolean"
    [] type = "address" -> isEvmAddress(v)
    [] type = "nullableString" -> v.k = "null" \/ TypeOf(v) = "string"
    [] type = "nullableNumber" -> v.k = "null" \/ IsFiniteNumber(v)
    [] type = "nullableAddress" -> v.k = "null" \/ isEvmAddress(v)

(***************************************************************************)
(* Error messages.  A message keeps its parts; Render gives its text.      *)
(***************************************************************************)
Msg(scope, kind, index, fieldIndex, idHint, detail, expected) ==
  [scope |-> scope, kind |-> kind, index |-> index, fieldIndex |-> fieldIndex,
   idHint |-> idHint, detail |-> detail, expected |-> expected]

CfgMsg(kind, index, fieldIndex, detail) ==
  Msg("config", kind, index, fieldIndex, "", detail, "")

FileMsg(file, kind, index, idHint, detail, expected) ==
  Msg(file, kind, index, -1, idHint, detail, expected)

ConfigKinds ==
  {"load", "failedToLoad", "rootNotObject", "filesNotArray", "entryNotObject",
   "entryPath", "entryFields", "fieldNotObject", "fieldName", "duplicateName",
   "fieldType"}

FileKinds ==
  {"notFound", "readError", "rootNotArray", "itemNotObject", "missingFields",
   "invalidType", "normalize"}

Quoted(s) == "\"" \o s \o "\""

RenderBody(m) ==
  LET entry == "File entry #" \o ToString(m.index)
      field == entry \o " field #" \o ToString(m.fieldIndex)
      item == "Item #" \o ToString(m.index) \o m.idHint
  IN CASE m.kind \in {"load", "readError"} -> m.detail
       [] m.kind = "failedToLoad" -> "Config failed to load"
       [] m.kind = "rootNotObject" -> "Root must be an object"
       [] m.kind = "filesNotArray" -> Quoted("files") \o " must be a non-empty array"
       [] m.kind = "entryNotObject" -> entry \o " must be an object"
       [] m.kind = "entryPath" -> entry \o " has invalid " \o Quoted("path")
       [] m.kind = "entryFields" -> entry \o " has invalid " \o Quoted("fields")
       [] m.kind = "fieldNotObject" -> field \o " must be an object"
       [] m.kind = "fieldName" -> field \o " has invalid " \o Quoted("name")
       [] m.kind = "duplicateName" ->
            entry \o " has duplicate field name " \o Quoted(m.detail)
       [] m.kind = "fieldType" -> field \o " has invalid " \o Quoted("type")
       [] m.kind = "notFound" -> "File not found"
       [] m.kind = "rootNotArray" -> "Root JSON must be an array"
       [] m.kind = "itemNotObject" -> item \o " is not an object"
       [] m.kind = "missingFields" -> item \o " missing fields: " \o m.detail
       [] m.kind = "invalidType" ->
            item \o " invalid " \o Quoted(m.detail) \o " type (expected "
              \o m.expected \o ")"
       [] m.kind = "normalize" -> item \o " failed to normalize " \o Quoted(m.detail)

Render(m) == "[" \o m.scope \o "] " \o RenderBody(m)

(***************************************************************************)
(* File system: resolved path -> file state.  A text file is modelled by   *)
(* what JSON.parse makes of its bytes.                                     *)
(***************************************************************************)
Missing == [st |-> "missing"]
Unreadable == [st |-> "unreadable"]
BadJson == [st |-> "text", ok |-> FALSE, value |-> Undefined]
Text(v) == [st |-> "text", ok |-> TRUE, value |-> v]

rootDir == "/repo"
configPath == "/repo/scripts/json-validation.config.json"

\* path.join(rootDir, file) normalises the joined path: a leading "./"
\* segment disappears.
Normalized ==
  [f \in {"data/a.json", "./data/a.json", "data/b.json"} |->
     IF f = "data/b.json" THEN "data/b.json" ELSE "data/a.json"]

PathJoin(root, file) ==
  root \o "/" \o (IF file \in DOMAIN Normalized THEN Normalized[file] ELSE file)

FileAt(fs, p) == IF p \in DOMAIN fs THEN fs[p] ELSE Missing

\* fs.existsSync(filePath)
existsSync(fs, p) == FileAt(fs, p).st # "missing"

\* readJson(filePath): ok with the parsed value, or the message of the error
\* thrown by readFileSync or by the JSON.parse wrapper.
readJson(fs, p) ==
  LET f == FileAt(fs, p)
  IN CASE f.st = "missing" ->
            [ok |-> FALSE, value |-> Undefined,
             message |-> "ENOENT: no such file or directory, open '" \o p \o "'"]
       [] f.st = "unreadable" ->
            [ok |-> FALSE, value |-> Undefined,
             message |-> "EISDIR: illegal operation on a directory, read"]
       [] f.st = "text" /\ ~f.ok ->
            [ok |-> FALSE, value |-> Undefined,
             message |-> "Invalid JSON: Unexpected end of JSON input"]
       [] OTHER -> [ok |-> TRUE, value |-> f.value, message |-> ""]

(***************************************************************************)
(* Shared context                                                          *)
(***************************************************************************)
createContext ==
  [errors |-> <<>>,
   config |-> Undefined,
   stats |-> [filesChecked |-> 0, itemsChecked |-> 0],
   loadedFiles |-> <<>>]

Push_Unshift(c, m) == [c EXCEPT !.errors = <<m>> \o @]

\* ctx.errors.push(m)
Push(c, m) == [c EXCEPT !.errors = Append(@, m)]

(***************************************************************************)
(* Step A: loadConfigStep                                                  *)
(***************************************************************************)
loadConfigStep(c, fs) ==
  LET r == readJson(fs, configPath)
  IN IF r.ok THEN [c EXCEPT !.config = r.value]
     ELSE Push(c, CfgMsg("load", -1, -1, r.message))

(***************************************************************************)
(* Step B: validateConfigStep                                              *)
(***************************************************************************)
ConfigNotLoaded_Never(c) == FALSE

\* if (ctx.config === undefined)
ConfigNotLoaded(c) == c.config = Undefined

InvalidString(v) == TypeOf(v) # "string" \/ TrimIsEmpty(v.s)

InvalidList_EmptyAllowed(v) == ~IsArray(v)

\* !Array.isArray(x) || x.length === 0
InvalidList(v) == ~IsArray(v) \/ Len(v.items) = 0

InvalidType(v) == TypeOf(v) # "string" \/ v.s \notin allowedTypes

AlreadySeen_Never(seen, name) == FALSE

\* fieldNames.has(name)
AlreadySeen(seen, name) == name \in seen

\* One FieldRule: the callback of fields.forEach.  acc = [ctx, seen].
ValidateField(acc, index, fieldIndex, field) ==
  IF NotPlainObject(field)
  THEN [acc EXCEPT !.ctx = Push(@, CfgMsg("fieldNotObject", index, fieldIndex, ""))]
  ELSE
    LET name == Get(field, "name")
        type == Get(field, "type")
        a1 == IF InvalidString(name)
              THEN [acc EXCEPT !.ctx = Push(@, CfgMsg("fieldName", index, fieldIndex, ""))]
              ELSE IF AlreadySeen(acc.seen, name.s)
              THEN [acc EXCEPT !.ctx = Push(@, CfgMsg("duplicateName", index, -1, name.s))]
              ELSE [acc EXCEPT !.seen = @ \cup {name.s}]
    IN IF InvalidType(type)
       THEN [a1 EXCEPT !.ctx = Push(@, CfgMsg("fieldType", index, fieldIndex, ""))]
       ELSE a1

RECURSIVE ValidateFieldsFrom(_, _, _, _)
ValidateFieldsFrom(acc, index, fields, j) ==
  IF j > Len(fields) THEN acc
  ELSE ValidateFieldsFrom(ValidateField(acc, index, j - 1, fields[j]), index, fields, j + 1)

ValidateEntry_PathStops(c, index, entry) ==
  IF NotPlainObject(entry)
  THEN Push(c, CfgMsg("entryNotObject", index, -1, ""))
  ELSE IF InvalidString(Get(entry, "path"))
  THEN Push(c, CfgMsg("entryPath", index, -1, ""))
  ELSE IF InvalidList(Get(entry, "fields"))
  THEN Push(c, CfgMsg("entryFields", index, -1, ""))
  ELSE ValidateFieldsFrom([ctx |-> c, seen |-> {}], index, Get(entry, "fields").items, 1).ctx

\* One FileRule: the callback of ctx.config.files.forEach.
ValidateEntry(c, index, entry) ==
  IF NotPlainObject(entry)
  THEN Push(c, CfgMsg("entryNotObject", index, -1, ""))
  ELSE
    LET filePath == Get(entry, "path")
        fields == Get(entry, "fields")
        c1 == IF InvalidString(filePath)
              THEN Push(c, CfgMsg("entryPath", index, -1, ""))
              ELSE c
    IN IF InvalidList(fields)
       THEN Push(c1, CfgMsg("entryFields", index, -1, ""))
       ELSE ValidateFieldsFrom([ctx |-> c1, seen |-> {}], index, fields.items, 1).ctx

RECURSIVE ValidateEntriesFrom(_, _, _)
ValidateEntriesFrom(c, files, i) ==
  IF i > Len(files) THEN c
  ELSE ValidateEntriesFrom(ValidateEntry(c, i - 1, files[i]), files, i + 1)

validateConfigStep(c) ==
  IF ConfigNotLoaded(c)
  THEN Push(c, CfgMsg("failedToLoad", -1, -1, ""))
  ELSE IF NotPlainObject(c.config)
  THEN Push(c, CfgMsg("rootNotObject", -1, -1, ""))
  ELSE IF InvalidList(Get(c.config, "files"))
  THEN Push(c, CfgMsg("filesNotArray", -1, -1, ""))
  ELSE ValidateEntriesFrom(c, Get(c.config, "files").items, 1)

(***************************************************************************)
(* Step C: validateFilesStep.  The step works on S = [ctx, probed, reads,  *)
(* thrown]: the context, the paths given to existsSync, the paths given to *)
(* readFileSync, and whether an exception has left the step.               *)
(***************************************************************************)
\* The idHint of a message: ` (id=${item.id})` when the item has an own "id".
\* The template literal throws when item.id cannot be converted to a string.
IdHintThrows(item) == HasOwn(item, "id") /\ ~CanToString(Get(item, "id"))

IdHint(item) ==
  IF HasOwn(item, "id") THEN " (id=" \o JsToString(Get(item, "id")) \o ")" ELSE ""

\* Whether the FieldRules can be applied to an item as the code does
\* (fields.map, field.name as a key, typeValidators[field.type] as a function).
\* validateConfigStep appends an error for every FileRule that fails this, so
\* validateFilesStep meets none; applying such rules ends in a TypeError.
UsableFields(fields) ==
  /\ IsArray(fields)
  /\ \A j \in 1..Len(fields.items) :
       /\ ~NotPlainObject(fields.items[j])
       /\ TypeOf(Get(fields.items[j], "name")) = "string"
       /\ ~InvalidType(Get(fields.items[j], "type"))

FieldNames(fields) == [j \in 1..Len(fields.items) |-> Get(fields.items[j], "name").s]

MissingFields_Unfiltered(fields, item) == FieldNames(fields)

\* fields.map(name).filter(not an own key of item)
MissingFields(fields, item) ==
  LET Absent(n) == ~HasOwn(item, n)
  IN SelectSeq(FieldNames(fields), Absent)

\* The callback of the type-check fields.forEach, for one field.
CheckFieldType(S, file, item, index, field) ==
  LET name == Get(field, "name").s
      type == Get(field, "type").s
  IN IF typeValidators(type, Get(item, name)) THEN S
     ELSE IF IdHintThrows(item) THEN [S EXCEPT !.thrown = TRUE]
     ELSE [S EXCEPT !.ctx =
             Push(@, FileMsg(file, "invalidType", index, IdHint(item), name, type))]

RECURSIVE CheckTypesFrom(_, _, _, _, _, _)
CheckTypesFrom(S, file, fields, item, index, j) ==
  IF j > Len(fields.items) \/ S.thrown THEN S
  ELSE CheckTypesFrom(CheckFieldType(S, file, item, index, fields.items[j]),
                      file, fields, item, index, j + 1)

HasMissing_Several(missing) == Len(missing) > 1

\* if (missing.length > 0)
HasMissing(missing) == Len(missing) > 0

\* The callback of data.forEach, for one item.
CheckItem(S, file, fields, item, index) ==
  LET S1 == [S EXCEPT !.ctx.stats.itemsChecked = @ + 1]
      missing == MissingFields(fields, item)
  IN IF NotPlainObject(item)
     THEN [S1 EXCEPT !.ctx = Push(@, FileMsg(file, "itemNotObject", index, "", "", ""))]
     ELSE IF ~UsableFields(fields) THEN [S1 EXCEPT !.thrown = TRUE]
     ELSE IF HasMissing(missing)
     THEN IF IdHintThrows(item) THEN [S1 EXCEPT !.thrown = TRUE]
          ELSE [S1 EXCEPT !.ctx =
                  Push(@, FileMsg(file, "missingFields", index, IdHint(item),
                                  JoinStrings(missing, ", "), ""))]
     ELSE CheckTypesFrom(S1, file, fields, item, index, 1)

RECURSIVE CheckItemsFrom(_, _, _, _, _)
CheckItemsFrom(S, file, fields, data, k) ==
  IF k > Len(data) \/ S.thrown THEN S
  ELSE CheckItemsFrom(CheckItem(S, file, fields, data[k], k - 1), file, fields, data, k + 1)

\* The body of the for-of loop, for one FileRule.  Destructuring a null
\* entry and path.join with a path that is no string throw a TypeError.
CheckFile(S, fs, entry) ==
  LET file == Get(entry, "path").s
      fields == Get(entry, "fields")
      filePath == PathJoin(rootDir, file)
      S1 == [S EXCEPT !.ctx.stats.filesChecked = @ + 1,
                      !.probed = Append(@, filePath)]
      S2 == [S1 EXCEPT !.reads = Append(@, filePath)]
      r == readJson(fs, filePath)
  IN IF entry.k = "null" \/ TypeOf(Get(entry, "path")) # "string"
     THEN [S EXCEPT !.thrown = TRUE]
     ELSE IF ~existsSync(fs, filePath)
     THEN [S1 EXCEPT !.ctx = Push(@, FileMsg(file, "notFound", -1, "", "", ""))]
     ELSE IF ~r.ok
     THEN [S2 EXCEPT !.ctx = Push(@, FileMsg(file, "readError", -1, "", r.message, ""))]
     ELSE IF ~IsArray(r.value)
     THEN [S2 EXCEPT !.ctx = Push(@, FileMsg(file, "rootNotArray", -1, "", "", ""))]
     ELSE CheckItemsFrom(
            [S2 EXCEPT !.ctx.loadedFiles =
               Append(@, [file |-> file, data |-> r.value.items, fields |-> fields])],
            file, fields, r.value.items, 1)

RECURSIVE CheckFilesFrom(_, _, _, _)
CheckFilesFrom(S, fs, files, i) ==
  IF i > Len(files) \/ S.thrown THEN S
  ELSE CheckFilesFrom(CheckFile(S, fs, files[i]), fs, files, i + 1)

FilesStepSkips_IgnoringErrors(c) == Falsy(c.config)

\* if (!ctx.config || ctx.errors.length > 0) return;
FilesStepSkips(c) == Falsy(c.config) \/ Len(c.errors) > 0

validateFilesStep(S, fs) ==
  IF FilesStepSkips(S.ctx) THEN S
  ELSE IF ~IsArray(Get(S.ctx.config, "files")) THEN S
  ELSE CheckFilesFrom(S, fs, Get(S.ctx.config, "files").items, 1)

(***************************************************************************)
(* Step D: normalizeStep.  Items are rewritten in place in loadedFiles.    *)
(***************************************************************************)
\* item[name] = value
SetProp(item, name, value) ==
  Obj([key \in DOMAIN item.props \cup {name} |->
         IF key = name THEN value ELSE item.props[key]])

NotAddressType_Nullable(type) == type # "address"

\* field.type !== 'address' && field.type !== 'nullableAddress'
NotAddressType(type) == type # "address" /\ type # "nullableAddress"

\* The body of `for (const field of fields)`, for item k of loaded file f.
NormalizeField(S, f, k, field) ==
  LET lf == S.ctx.loadedFiles[f]
      item == lf.data[k]
      name == Get(field, "name").s
      type == Get(field, "type").s
      value == Get(item, name)
  IN IF NotAddressType(type) THEN S
     ELSE IF type = "nullableAddress" /\ value.k = "null" THEN S
     ELSE IF ~GetAddressThrows(value)
     THEN [S EXCEPT !.ctx.loadedFiles[f].data[k] = SetProp(item, name, getAddress(value))]
     ELSE IF IdHintThrows(item) THEN [S EXCEPT !.thrown = TRUE]
     ELSE [S EXCEPT !.ctx =
             Push(@, FileMsg(lf.file, "normalize", k - 1, IdHint(item), name, ""))]

RECURSIVE NormalizeFieldsFrom(_, _, _, _)
NormalizeFieldsFrom(S, f, k, j) ==
  IF j > Len(S.ctx.loadedFiles[f].fields.items) \/ S.thrown THEN S
  ELSE NormalizeFieldsFrom(NormalizeField(S, f, k, S.ctx.loadedFiles[f].fields.items[j]),
                           f, k, j + 1)

RECURSIVE NormalizeItemsFrom(_, _, _)
NormalizeItemsFrom(S, f, k) ==
  IF k > Len(S.ctx.loadedFiles[f].data) \/ S.thrown THEN S
  ELSE IF NotPlainObject(S.ctx.loadedFiles[f].data[k])
  THEN NormalizeItemsFrom(S, f, k + 1)
  ELSE NormalizeItemsFrom(NormalizeFieldsFrom(S, f, k, 1), f, k + 1)

RECURSIVE NormalizeFilesFrom(_, _)
NormalizeFilesFrom(S, f) ==
  IF f > Len(S.ctx.loadedFiles) \/ S.thrown THEN S
  ELSE NormalizeFilesFrom(NormalizeItemsFrom(S, f, 1), f + 1)

NormalizeSkips_Never(c) == FALSE

NormalizeSkips_WithoutFiles(c) == Len(c.loadedFiles) = 0

\* if (ctx.errors.length > 0) return;
NormalizeSkips(c) == Len(c.errors) > 0

normalizeStep(S) ==
  IF NormalizeSkips(S.ctx) THEN S
  ELSE IF Len(S.ctx.loadedFiles) = 0 THEN S
  ELSE NormalizeFilesFrom(S, 1)

FilesOnDisk_Saved(fs, c) ==
  [p \in DOMAIN fs |->
     IF \E i \in 1..Len(c.loadedFiles) : PathJoin(rootDir, c.loadedFiles[i].file) = p
     THEN Text(Arr(c.loadedFiles[CHOOSE i \in 1..Len(c.loadedFiles) :
                                   PathJoin(rootDir, c.loadedFiles[i].file) = p].data))
     ELSE fs[p]]

\* The files once normalizeStep is over: the step assigns item[field.name] in
\* memory and calls nothing of fs, so they are as they were.
FilesOnDisk(fs, c) == fs

(***************************************************************************)
(* Step E: finalizeStep.  out = [stdout, stderr, exit]; exit is "1" when   *)
(* process.exit(1) ends the process, "" when the step returns.             *)
(***************************************************************************)
ReportsFailure_OnlySeveral(c) == Len(c.errors) > 1

\* if (ctx.errors.length > 0)
ReportsFailure(c) == Len(c.errors) > 0

finalizeStep(c) ==
  IF ReportsFailure(c)
  THEN [stdout |-> <<>>,
        stderr |-> <<"JSON validation failed:">>
                     \o [i \in 1..Len(c.errors) |-> "- " \o Render(c.errors[i])],
        exited |-> TRUE]
  ELSE [stdout |-> <<"JSON validation passed.">>, stderr |-> <<>>, exited |-> FALSE]

(***************************************************************************)
(* The original single script, scripts/validate-json.js.  Its messages are *)
(* the strings it pushes onto `errors`.  O = [errors, probed, thrown]: the *)
(* list, the paths given to existsSync, and whether an exception has left  *)
(* the script.                                                             *)
(***************************************************************************)
OriginalPush(O, text) == [O EXCEPT !.errors = Append(@, text)]

\* The callback of fields.forEach of the original.  acc = [O, seen].
OriginalField(acc, index, fieldIndex, field) ==
  LET at == "[config] File entry #" \o ToString(index) \o " field #" \o ToString(fieldIndex)
      name == Get(field, "name")
      type == Get(field, "type")
      a1 == IF TypeOf(name) # "string" \/ TrimIsEmpty(name.s)
            THEN [acc EXCEPT !.O = OriginalPush(@, at \o " has invalid \"name\"")]
            ELSE IF name.s \in acc.seen
            THEN [acc EXCEPT !.O =
                    OriginalPush(@, "[config] File entry #" \o ToString(index)
                                      \o " has duplicate field name \"" \o name.s \o "\"")]
            ELSE [acc EXCEPT !.seen = @ \cup {name.s}]
  IN IF NotPlainObject(field)
     THEN [acc EXCEPT !.O = OriginalPush(@, at \o " must be an object")]
     ELSE IF TypeOf(type) # "string" \/ type.s \notin allowedTypes
     THEN [a1 EXCEPT !.O = OriginalPush(@, at \o " has invalid \"type\"")]
     ELSE a1

RECURSIVE OriginalFieldsFrom(_, _, _, _)
OriginalFieldsFrom(acc, index, fields, j) ==
  IF j > Len(fields) THEN acc
  ELSE OriginalFieldsFrom(OriginalField(acc, index, j - 1, fields[j]), index, fields, j + 1)

\* The callback of config.files.forEach of the original.
OriginalEntry(O, index, entry) ==
  LET at == "[config] File entry #" \o ToString(index)
      filePath == Get(entry, "path")
      fields == Get(entry, "fields")
      O1 == IF TypeOf(filePath) # "string" \/ TrimIsEmpty(filePath.s)
            THEN OriginalPush(O, at \o " has invalid \"path\"")
            ELSE O
  IN IF NotPlainObject(entry)
     THEN OriginalPush(O, at \o " must be an object")
     ELSE IF ~IsArray(fields) \/ Len(fields.items) = 0
     THEN OriginalPush(O1, at \o " has invalid \"fields\"")
     ELSE OriginalFieldsFrom([O |-> O1, seen |-> {}], index, fields.items, 1).O

RECURSIVE OriginalEntriesFrom(_, _, _)
OriginalEntriesFrom(O, files, i) ==
  IF i > Len(files) THEN O
  ELSE OriginalEntriesFrom(OriginalEntry(O, i - 1, files[i]), files, i + 1)

\* The config part of the original: load, then the if / else-if / else chain.
OriginalConfigPart(fs) ==
  LET r == readJson(fs, configPath)
      config == IF r.ok THEN r.value ELSE Undefined
      O0 == [errors |-> IF r.ok THEN <<>> ELSE <<"[config] " \o r.message>>,
             probed |-> <<>>, thrown |-> FALSE]
  IN IF NotPlainObject(config)
     THEN OriginalPush(O0, "[config] Root must be an object")
     ELSE IF ~IsArray(Get(config, "files")) \/ Len(Get(config, "files").items) = 0
     THEN OriginalPush(O0, "[config] \"files\" must be a non-empty array")
     ELSE OriginalEntriesFrom(O0, Get(config, "files").items, 1)

\* Object.prototype.hasOwnProperty.call(item, 'id') ? ` (id=${item.id})` : ''
OriginalIdHint(item) ==
  IF HasOwn(item, "id") THEN " (id=" \o JsToString(Get(item, "id")) \o ")" ELSE ""

\* The callback of the type-check fields.forEach of the original.
OriginalFieldType(O, file, item, index, field) ==
  LET name == Get(field, "name").s
      type == Get(field, "type").s
  IN IF typeValidators(type, Get(item, name)) THEN O
     ELSE IF HasOwn(item, "id") /\ ~CanToString(Get(item, "id"))
     THEN [O EXCEPT !.thrown = TRUE]
     ELSE OriginalPush(O, "[" \o file \o "] Item #" \o ToString(index)
                            \o OriginalIdHint(item) \o " invalid \"" \o name
                            \o "\" type (expected " \o type \o ")")

RECURSIVE OriginalTypesFrom(_, _, _, _, _, _)
OriginalTypesFrom(O, file, fields, item, index, j) ==
  IF j > Len(fields) \/ O.thrown THEN O
  ELSE OriginalTypesFrom(OriginalFieldType(O, file, item, index, fields[j]),
                         file, fields, item, index, j + 1)

\* The callback of data.forEach of the original.
OriginalItem(O, file, fields, item, index) ==
  LET at == "[" \o file \o "] Item #" \o ToString(index)
      Lacks(n) == ~HasOwn(item, n)
      missing == SelectSeq([j \in 1..Len(fields) |-> Get(fields[j], "name").s], Lacks)
  IN IF NotPlainObject(item)
     THEN OriginalPush(O, at \o " is not an object")
     ELSE IF Len(missing) > 0
     THEN IF HasOwn(item, "id") /\ ~CanToString(Get(item, "id"))
          THEN [O EXCEPT !.thrown = TRUE]
          ELSE OriginalPush(O, at \o OriginalIdHint(item) \o " missing fields: "
                                 \o JoinStrings(missing, ", "))
     ELSE OriginalTypesFrom(O, file, fields, item, index, 1)

RECURSIVE OriginalItemsFrom(_, _, _, _, _)
OriginalItemsFrom(O, file, fields, data, k) ==
  IF k > Len(data) \/ O.thrown THEN O
  ELSE OriginalItemsFrom(OriginalItem(O, file, fields, data[k], k - 1),
                         file, fields, data, k + 1)

\* The body of `for (const { path: file, fields } of config.files)`.
OriginalFile(O, fs, entry) ==
  LET file == Get(entry, "path").s
      fields == Get(entry, "fields").items
      filePath == PathJoin(rootDir, file)
      O1 == [O EXCEPT !.probed = Append(@, filePath)]
      r == readJson(fs, filePath)
  IN IF ~existsSync(fs, filePath)
     THEN OriginalPush(O1, "[" \o file \o "] File not found")
     ELSE IF ~r.ok
     THEN OriginalPush(O1, "[" \o file \o "] " \o r.message)
     ELSE IF ~IsArray(r.value)
     THEN OriginalPush(O1, "[" \o file \o "] Root JSON must be an array")
     ELSE OriginalItemsFrom(O1, file, fields, r.value.items, 1)

RECURSIVE OriginalFilesFrom(_, _, _, _)
OriginalFilesFrom(O, fs, files, i) ==
  IF i > Len(files) \/ O.thrown THEN O
  ELSE OriginalFilesFrom(OriginalFile(O, fs, files[i]), fs, files, i + 1)

\* if (errors.length > 0) { print the list; process.exit(1) }
OriginalFailure(O) ==
  [status |-> "exited", errors |-> O.errors, probed |-> O.probed, stdout |-> <<>>,
   stderr |-> <<"JSON validation failed:">>
                \o [i \in 1..Len(O.errors) |-> "- " \o O.errors[i]],
   exitCode |-> 1]

\* The whole run of the original script on the files fs.
OriginalScript(fs) ==
  LET C == OriginalConfigPart(fs)
      F == OriginalFilesFrom(C, fs, Get(readJson(fs, configPath).value, "files").items, 1)
  IN IF Len(C.errors) > 0 THEN OriginalFailure(C)
     ELSE IF F.thrown
     THEN [status |-> "crashed", errors |-> F.errors, probed |-> F.probed, stdout |-> <<>>,
           stderr |-> <<"TypeError: Cannot convert object to primitive value">>,
           exitCode |-> 1]
     ELSE IF Len(F.errors) > 0 THEN OriginalFailure(F)
     ELSE [status |-> "returned", errors |-> <<>>, probed |-> F.probed,
           stdout |-> <<"JSON validation passed.">>, stderr |-> <<>>, exitCode |-> 0]

\* The original script has not been run.
OriginalNotRun ==
  [status |-> "notRun", errors |-> <<>>, probed |-> <<>>, stdout |-> <<>>,
   stderr |-> <<>>, exitCode |-> -1]

(***************************************************************************)
(* Inputs: the config document and the data files on disk when the script  *)
(* starts.  Each family below varies one part of the input richly and      *)
(* keeps the rest small.                                                   *)
(***************************************************************************)
SeqsFromTo(S, lo, hi) == UNION {[1..m -> S] : m \in lo..hi}

FieldRule(name, type) == Obj([name |-> Str(name), type |-> Str(type)])
FileRule(path, fields) == Obj([path |-> Str(path), fields |-> Arr(fields)])
Config(files) == Obj([files |-> Arr(files)])

\* An object holding the keys of `keys` that `vals` maps to a value.
Absent == [k |-> "absent"]
ObjOf(vals) ==
  Obj([key \in {x \in DOMAIN vals : vals[x] # Absent} |-> vals[key]])

DataPathA == "/repo/data/a.json"
DataPathB == "/repo/data/b.json"
MkFs(cfg, a, b) ==
  [p \in {configPath, DataPathA, DataPathB} |->
     IF p = configPath THEN cfg ELSE IF p = DataPathA THEN a ELSE b]

NoToString == Obj([toString |-> Num(0)])
CleanItem == Obj([id |-> Str("x"), a |-> Str(AddrChecksum)])

\* Family 1: every shape of config document down to the FileRule level.
EntryShapes ==
  {Null, Str("data/a.json"), Arr(<<>>), ObjOf([path |-> Absent, fields |-> Absent]),
   Obj([path |-> Num(1), fields |-> Arr(<<FieldRule("id", "string")>>)]),
   Obj([path |-> Num(1),
        fields |-> Arr(<<Obj([name |-> Str(" "), type |-> Str("bogus")])>>)]),
   FileRule(" ", <<FieldRule("id", "string")>>),
   FileRule("data/a.json", <<>>),
   Obj([path |-> Str("data/b.json"), fields |-> Str("id")]),
   FileRule("data/a.json", <<FieldRule("id", "string")>>),
   FileRule("data/b.json", <<FieldRule("a", "address")>>)}

ConfigRoots ==
  {Null, Bool(FALSE), Num(0), Str("files"), Arr(<<>>),
   Arr(<<FileRule("data/a.json", <<FieldRule("id", "string")>>)>>),
   ObjOf([files |-> Absent]), Obj([files |-> Null]), Obj([files |-> Str("data/a.json")]),
   Obj([files |-> Config(<<>>)]), Config(<<>>)}
  \cup {Config(es) : es \in SeqsFromTo(EntryShapes, 1, MaxFiles)}

ConfigFiles1 == {Missing, Unreadable, BadJson} \cup {Text(r) : r \in ConfigRoots}
DataFiles1 == {Missing, Text(Arr(<<CleanItem>>))}
Inputs1 ==
  \E c \in ConfigFiles1, a \in DataFiles1, b \in DataFiles1 : fsys = MkFs(c, a, b)

\* Family 2: one FileRule, every shape of its FieldRules.
NameShapes == {Absent, Num(1), Str(" "), Str("id"), Str("a")}
TypeShapes == {Absent, Num(1), Str("bogus"), Str("string"), Str("address")}
FieldShapes ==
  {Null, Str("id"), Arr(<<>>)}
  \cup {ObjOf([name |-> n, type |-> t]) : n \in NameShapes, t \in TypeShapes}
Inputs2 ==
  \E m \in 1..MaxFields : \E fs \in [1..m -> FieldShapes], a \in DataFiles1 :
    fsys = MkFs(Text(Config(<<Obj([path |-> Str("data/a.json"), fields |-> Arr(fs)])>>)),
                a, Missing)

\* Family 3: well-formed configs of several FileRules, every state of a file.
Entries3 ==
  {FileRule(p, <<FieldRule("id", "string")>>) :
     p \in {"data/a.json", "./data/a.json", "data/b.json"}}
  \cup {FileRule("data/b.json", <<FieldRule("a", "address")>>)}
DataFiles3 ==
  {Missing, Unreadable, BadJson, Text(Null), Text(CleanItem), Text(Arr(<<>>)),
   Text(Arr(<<CleanItem>>)),
   Text(Arr(<<Obj([id |-> Num(7)])>>)),
   Text(Arr(<<Obj([id |-> NoToString])>>))}
Inputs3 ==
  \E m \in 1..MaxFiles : \E es \in [1..m -> Entries3], a \in DataFiles3, b \in DataFiles3 :
    fsys = MkFs(Text(Config(es)), a, b)

\* Family 4: one file of one item; every declared type against every value.
Names4 == {"id", "a"}
FieldLists4 ==
  {fs \in SeqsFromTo({FieldRule(n, t) : n \in Names4, t \in allowedTypes}, 1, MaxFields) :
     \A i, j \in 1..Len(fs) : i # j => Get(fs[i], "name") # Get(fs[j], "name")}
Values4 ==
  {Absent, Null, Str("x"), Str(AddrLower), Str(AddrChecksum), Str(AddrBadSum),
   Num(7), Infinity, Bool(TRUE), NoToString}
Items4 ==
  {Null, Num(7), Arr(<<>>)} \cup {ObjOf([id |-> i, a |-> v]) : i \in Values4, v \in Values4}
Inputs4 ==
  \E fs \in FieldLists4, it \in Items4 :
    fsys = MkFs(Text(Config(<<FileRule("data/a.json", fs)>>)), Text(Arr(<<it>>)), Missing)

\* Family 5: one file of several items.
Items5 ==
  {CleanItem,
   Obj([id |-> Num(1), a |-> Str(AddrLower)]),
   Obj([id |-> Str("v"), a |-> Str(AddrLower)]),
   Obj([id |-> Str("y"), a |-> Null]),
   Obj([id |-> Str("z")]),
   Obj([id |-> Str("w"), a |-> Str(AddrBadSum)]),
   Obj([a |-> Num(7)]),
   Null,
   Obj([id |-> NoToString])}
Inputs5 ==
  \E m \in 0..MaxItems : \E its \in [1..m -> Items5] :
    fsys = MkFs(Text(Config(<<FileRule("data/a.json",
                                       <<FieldRule("id", "string"),
                                         FieldRule("a", "nullableAddress")>>)>>)),
                Text(Arr(its)), Missing)


\* Family 6: a FileRule whose FieldRules repeat names, followed by a second
\* FileRule that declares one of those names once.
RepeatShapes ==
  {FieldRule("id", "string"), FieldRule("a", "address"), FieldRule("id", "bogus"), Null}
Inputs6 ==
  \E m \in 1..MaxRepeat : \E fs \in [1..m -> RepeatShapes] :
    fsys = MkFs(Text(Config(<<FileRule("data/a.json", fs),
                              FileRule("data/b.json", <<FieldRule("id", "string")>>)>>)),
                Missing, Missing)

Inputs == Inputs1 \/ Inputs2 \/ Inputs3 \/ Inputs4 \/ Inputs5 \/ Inputs6

(***************************************************************************)
(* runPipeline: the steps in order over the shared context.  pc is the     *)
(* index of the step to call next.  status is "running", "returned" (the   *)
(* loop ended), "exited" (process.exit(1) in finalizeStep) or "crashed"    *)
(* (an exception left a step: Node prints it and exits with code 1).       *)
(* ran lists the steps called so far and after[i] is the context as the    *)
(* i-th of them left it.                                                   *)
(***************************************************************************)
steps ==
  <<"loadConfigStep", "validateConfigStep", "validateFilesStep", "normalizeStep",
    "finalizeStep">>

Init ==
  /\ Inputs
  /\ ctx = createContext
  /\ pc = 1
  /\ status = "running"
  /\ ran = <<>>
  /\ after = <<>>
  /\ probed = <<>>
  /\ reads = <<>>
  /\ stdout = <<>>
  /\ stderr = <<>>
  /\ exitCode = -1
  /\ orig = OriginalNotRun

\* step(ctx) for a step that may throw: S is what the step left behind.
Called(S) ==
  /\ ran' = Append(ran, steps[pc])
  /\ after' = Append(after, S.ctx)
  /\ ctx' = S.ctx
  /\ probed' = S.probed
  /\ reads' = S.reads
  /\ IF S.thrown
     THEN /\ status' = "crashed"
          /\ exitCode' = 1
          /\ stderr' = Append(stderr, "TypeError: Cannot convert object to primitive value")
          /\ pc' = pc
     ELSE /\ pc' = pc + 1
          /\ UNCHANGED <<status, exitCode, stderr>>
  /\ UNCHANGED <<stdout, orig>>

Running(i) == status = "running" /\ pc = i

Here == [ctx |-> ctx, probed |-> probed, reads |-> reads, thrown |-> FALSE]

LoadConfigStep ==
  /\ Running(1)
  /\ Called([Here EXCEPT !.ctx = loadConfigStep(ctx, fsys),
                         !.reads = Append(@, configPath)])
  /\ UNCHANGED fsys

ValidateConfigStep ==
  /\ Running(2)
  /\ Called([Here EXCEPT !.ctx = validateConfigStep(ctx)])
  /\ UNCHANGED fsys

ValidateFilesStep ==
  /\ Running(3)
  /\ Called(validateFilesStep(Here, fsys))
  /\ UNCHANGED fsys

NormalizeStep ==
  /\ Running(4)
  /\ Called(normalizeStep(Here))
  /\ fsys' = FilesOnDisk(fsys, normalizeStep(Here).ctx)

FinalizeStep ==
  /\ Running(5)
  /\ LET out == finalizeStep(ctx)
     IN /\ stdout' = stdout \o out.stdout
        /\ stderr' = stderr \o out.stderr
        /\ status' = IF out.exited THEN "exited" ELSE "returned"
        /\ exitCode' = IF out.exited THEN 1 ELSE 0
  /\ ran' = Append(ran, steps[pc])
  /\ after' = Append(after, ctx)
  /\ pc' = pc + 1
  /\ UNCHANGED <<fsys, ctx, probed, reads, orig>>

Next ==
  \/ LoadConfigStep
  \/ ValidateConfigStep
  \/ ValidateFilesStep
  \/ NormalizeStep
  \/ FinalizeStep

Spec == Init /\ [][Next]_vars

\* The pipeline with normalizeStep listed twice in `steps`: the second call
\* gets the context the first one left.
NormalizeStepAgain ==
  /\ Running(5) /\ Len(ran) = 4
  /\ LET S == normalizeStep(Here)
     IN /\ ran' = Append(ran, "normalizeStep")
        /\ after' = Append(after, S.ctx)
        /\ ctx' = S.ctx
        /\ probed' = S.probed
        /\ reads' = S.reads
        /\ fsys' = FilesOnDisk(fsys, S.ctx)
        /\ IF S.thrown
           THEN /\ status' = "crashed"
                /\ exitCode' = 1
                /\ stderr' = Append(stderr, "TypeError: Cannot convert object to primitive value")
           ELSE UNCHANGED <<status, exitCode, stderr>>
  /\ UNCHANGED <<pc, stdout, orig>>

NextTwice == Next \/ NormalizeStepAgain

SpecTwice == Init /\ [][NextTwice]_vars

\* The original script run on the same files, once the pipeline is over.
RunOriginalScript ==
  /\ status # "running"
  /\ orig = OriginalNotRun
  /\ orig' = OriginalScript(fsys)
  /\ UNCHANGED <<fsys, ctx, pc, status, ran, after, probed, reads, stdout, stderr, exitCode>>

NextBoth == Next \/ RunOriginalScript

SpecBoth == Init /\ [][NextBoth]_vars

(***************************************************************************)
(* Vocabulary of the properties                                            *)
(***************************************************************************)
\* The i-th step of the pipeline has been called and has left the context.
Done(i) == Len(after) >= i

Finished == status # "running"

ConfigFile == FileAt(fsys, configPath)

\* The config bytes are unreadable or do not parse as JSON.
ConfigLoadFails == ConfigFile.st # "text" \/ ~ConfigFile.ok

ConfigRoot == ConfigFile.value

IsConfigMsg(m) == m.kind \in ConfigKinds
IsFileMsg(m) == m.kind \in FileKinds

\* No data file has been touched and nothing has been recorded about one.
NoFileLevelCheck ==
  /\ probed = <<>>
  /\ reads = <<configPath>>
  /\ ctx.loadedFiles = <<>>
  /\ ctx.stats.filesChecked = 0
  /\ ctx.stats.itemsChecked = 0
  /\ \A i \in 1..Len(ctx.errors) : IsConfigMsg(ctx.errors[i])

\* C1: whenever the error list is non-empty as validateConfigStep finishes,
\* validateFilesStep (and every later step) leaves the data files unprobed
\* and unread, loadedFiles empty, both counters 0 and the error list free of
\* '[<path>] ...' messages.
C1_FailFastOnConfigErrors ==
  (Done(2) /\ Len(after[2].errors) > 0) =>
    /\ NoFileLevelCheck
    /\ Done(3) => after[3] = after[2]

\* C1 witness: validateFilesStep was called with config errors recorded,
\* while the config declares a rule whose data file exists on disk.
C1_Witness ==
  /\ Done(3) /\ Len(after[2].errors) > 0
  /\ ~ConfigLoadFails /\ ~NotPlainObject(ConfigRoot)
  /\ IsArray(Get(ConfigRoot, "files"))
  /\ \E i \in 1..Len(Get(ConfigRoot, "files").items) :
       LET e == Get(ConfigRoot, "files").items[i]
       IN /\ TypeOf(Get(e, "path")) = "string"
          /\ existsSync(fsys, PathJoin(rootDir, Get(e, "path").s))

\* C2: every run calls the five steps once each in the fixed order and
\* reaches finalizeStep: the steps called so far are always a prefix of the
\* step list, and a run that has ended has called all five.
C2_AllStepsAlwaysRun ==
  /\ Len(ran) <= Len(steps)
  /\ \A i \in 1..Len(ran) : ran[i] = steps[i]
  /\ Finished => ran = steps

\* C3: when the error list is non-empty as normalizeStep starts, the step
\* leaves the whole context (records and error list) as it found it; so it
\* changes something only in a run whose first three steps appended nothing.
C3_NormalizerOnlyOnCleanContext ==
  Done(4) =>
    /\ Len(after[3].errors) > 0 => after[4] = after[3]
    /\ after[4] # after[3] => Len(after[3].errors) = 0

\* Some loaded record holds, in an address-typed field, a valid address that
\* is not in canonical form: normalizeStep would rewrite it.
RewritableIn(c) ==
  \E f \in 1..Len(c.loadedFiles) :
    \E k \in 1..Len(c.loadedFiles[f].data), j \in 1..Len(c.loadedFiles[f].fields.items) :
      LET item == c.loadedFiles[f].data[k]
          field == c.loadedFiles[f].fields.items[j]
          value == Get(item, Get(field, "name").s)
      IN /\ Get(field, "type").s \in {"address", "nullableAddress"}
         /\ value.k = "str" /\ value.s \in {AddrLower, AddrUpper}

\* C3 witness: normalizeStep was called with errors recorded and a loaded
\* record it would have rewritten.
C3_Witness == Done(4) /\ Len(after[3].errors) > 0 /\ RewritableIn(after[3])

\* C4: once finalizeStep has run, the run failed (exit 1, the header and one
\* line per error in order on stderr, nothing on stdout) exactly when the
\* error list is non-empty, and succeeded (exit 0, the one confirmation line)
\* exactly when it is empty; success is never printed with an error recorded.
C4_ReporterOutcome ==
  /\ Done(5) =>
       IF Len(ctx.errors) > 0
       THEN /\ status = "exited" /\ exitCode = 1 /\ stdout = <<>>
            /\ Len(stderr) = Len(ctx.errors) + 1
            /\ stderr[1] = "JSON validation failed:"
            /\ \A i \in 1..Len(ctx.errors) : stderr[i + 1] = "- " \o Render(ctx.errors[i])
       ELSE /\ status = "returned" /\ exitCode = 0 /\ stderr = <<>>
            /\ stdout = <<"JSON validation passed.">>
  /\ stdout # <<>> => ctx.errors = <<>>
  /\ exitCode = 0 => ctx.errors = <<>>

\* C4 witness: finalizeStep reported a failure of several errors.
C4_Witness == Done(5) /\ Len(ctx.errors) >= 2 /\ status = "exited"

\* C5: a run whose config bytes are unreadable or do not parse ends with
\* exactly one message in the error list and without any file-level check.
C5_SingleLoadMessage ==
  (Finished /\ ConfigLoadFails) => (Len(ctx.errors) = 1 /\ NoFileLevelCheck)

RootOrFilesInvalid ==
  /\ ~ConfigLoadFails
  /\ \/ ConfigRoot.k # "obj"
     \/ "files" \notin DOMAIN ConfigRoot.props
     \/ ConfigRoot.props["files"].k # "arr"
     \/ Len(ConfigRoot.props["files"].items) = 0

\* C7: for such a config the error list holds exactly one error from
\* validateConfigStep on, and no file-level check occurs.
C7_SingleErrorForBadRootOrFiles ==
  (RootOrFilesInvalid /\ Done(2)) =>
    /\ Len(ctx.errors) = 1
    /\ ctx.errors[1].kind =
         (IF ConfigRoot.k # "obj" THEN "rootNotObject" ELSE "filesNotArray")
    /\ NoFileLevelCheck

\* C7 witness: a finished run whose config root is an array holding a usable
\* FileRule, or whose "files" is empty, while a data file exists on disk.
C7_Witness ==
  /\ Finished /\ RootOrFilesInvalid /\ existsSync(fsys, DataPathA)
  /\ \/ ConfigRoot.k = "arr" /\ Len(ConfigRoot.items) > 0
     \/ ConfigRoot.k = "obj" /\ Get(ConfigRoot, "files").k = "arr"

\* A config that satisfies every structural rule.
WellFormedConfig ==
  /\ ~ConfigLoadFails
  /\ ConfigRoot.k = "obj"
  /\ Get(ConfigRoot, "files").k = "arr"
  /\ LET files == Get(ConfigRoot, "files").items
     IN /\ Len(files) > 0
        /\ \A i \in 1..Len(files) :
             /\ files[i].k = "obj"
             /\ Get(files[i], "path").k = "str"
             /\ Get(files[i], "path").s \notin WhitespaceOnly
             /\ Get(files[i], "fields").k = "arr"
             /\ LET fields == Get(files[i], "fields").items
                IN /\ Len(fields) > 0
                   /\ \A j \in 1..Len(fields) :
                        /\ fields[j].k = "obj"
                        /\ Get(fields[j], "name").k = "str"
                        /\ Get(fields[j], "name").s \notin WhitespaceOnly
                        /\ Get(fields[j], "type").k = "str"
                        /\ Get(fields[j], "type").s \in allowedTypes
                   /\ \A j1, j2 \in 1..Len(fields) :
                        j1 # j2 => Get(fields[j1], "name") # Get(fields[j2], "name")

Rules == Get(ConfigRoot, "files").items
RuleFile(i) == FileAt(fsys, PathJoin(rootDir, Get(Rules[i], "path").s))
RuleFields(i) == Get(Rules[i], "fields").items

\* The file of rule i exists, parses and has an array root.
RuleFileLoads(i) ==
  RuleFile(i).st = "text" /\ RuleFile(i).ok /\ RuleFile(i).value.k = "arr"

\* Every record of rule i's file is an object holding every declared field
\* with a value its type validator accepts.
RuleFileClean(i) ==
  /\ RuleFileLoads(i)
  /\ \A k \in 1..Len(RuleFile(i).value.items) :
       LET item == RuleFile(i).value.items[k]
       IN /\ item.k = "obj"
          /\ \A j \in 1..Len(RuleFields(i)) :
               LET name == Get(RuleFields(i)[j], "name").s
               IN /\ name \in DOMAIN item.props
                  /\ typeValidators(Get(RuleFields(i)[j], "type").s, item.props[name])

NoSchemaViolation == WellFormedConfig /\ \A i \in 1..Len(Rules) : RuleFileClean(i)

\* C8: a run on a well-formed config and data files without schema violation
\* never records an error, never crashes, and ends with the Reporter's
\* success line and exit status 0.
C8_CleanInputsSucceed ==
  NoSchemaViolation =>
    /\ ctx.errors = <<>>
    /\ status \in {"running", "returned"}
    /\ Finished => (exitCode = 0 /\ stdout = <<"JSON validation passed.">> /\ stderr = <<>>)

\* C8 witness: a clean run has ended after normalizeStep rewrote an address.
C8_Witness ==
  /\ Finished /\ NoSchemaViolation
  /\ ctx.stats.itemsChecked > 0
  /\ after[4].loadedFiles # after[3].loadedFiles

\* The number of messages of errs that satisfy P.
CountMsgs(errs, P(_)) == Cardinality({i \in 1..Len(errs) : P(errs[i])})

RECURSIVE SumUpTo(_, _)
SumUpTo(f, n) == IF n = 0 THEN 0 ELSE f[n] + SumUpTo(f, n - 1)

\* validateFilesStep was called on a context without errors.
FilesStepActed == Done(3) /\ after[2].errors = <<>>

FileLevelKinds == {"notFound", "readError", "rootNotArray"}
ItemLevelKinds == {"itemNotObject", "missingFields", "invalidType"}

\* C9: once validateFilesStep has acted, every FileRule has been processed in
\* declared order whatever happened to the files before it; each rule whose
\* file is missing, unparseable or not an array has exactly one file-level
\* error and no item-level error under its path; and the items checked are
\* all the items of all the files that load.
C9_FileFailureIsNotFatal ==
  FilesStepActed =>
    /\ probed = [i \in 1..Len(Rules) |-> PathJoin(rootDir, Get(Rules[i], "path").s)]
    /\ after[3].stats.filesChecked = Len(Rules)
    /\ after[3].stats.itemsChecked =
         SumUpTo([i \in 1..Len(Rules) |->
                    IF RuleFileLoads(i) THEN Len(RuleFile(i).value.items) ELSE 0],
                 Len(Rules))
    /\ \A i \in 1..Len(Rules) :
         LET p == Get(Rules[i], "path").s
             FileLevel(m) == m.scope = p /\ m.kind \in FileLevelKinds
             ItemLevel(m) == m.scope = p /\ m.kind \in ItemLevelKinds
         IN ~RuleFileLoads(i) =>
              /\ CountMsgs(after[3].errors, FileLevel) =
                   Cardinality({h \in 1..Len(Rules) : Get(Rules[h], "path").s = p})
              /\ CountMsgs(after[3].errors, ItemLevel) = 0

\* The declared names that are no own key of the object item, in declaration order.
AbsentNames(fields, item) ==
  LET Lacks(f) == Get(f, "name").s \notin DOMAIN item.props
  IN [j \in 1..Len(SelectSeq(fields, Lacks)) |-> Get(SelectSeq(fields, Lacks)[j], "name").s]

PathsDistinct ==
  \A i, h \in 1..Len(Rules) : i # h => Get(Rules[i], "path") # Get(Rules[h], "path")

\* C10: once validateFilesStep has acted, every object record of a loaded
\* file that lacks a declared field has exactly one 'missing fields' error,
\* which lists exactly the absent declared names in declaration order, and no
\* type error.
C10_MissingFieldsSingleError ==
  (FilesStepActed /\ PathsDistinct) =>
    \A f \in 1..Len(after[3].loadedFiles) :
      LET lf == after[3].loadedFiles[f]
      IN \A k \in 1..Len(lf.data) :
           LET item == lf.data[k]
               IsMissing(m) == m.scope = lf.file /\ m.index = k - 1 /\ m.kind = "missingFields"
               IsType(m) == m.scope = lf.file /\ m.index = k - 1 /\ m.kind = "invalidType"
           IN (item.k = "obj" /\ Len(AbsentNames(lf.fields.items, item)) > 0) =>
                /\ CountMsgs(after[3].errors, IsMissing) = 1
                /\ CountMsgs(after[3].errors, IsType) = 0
                /\ \A i \in 1..Len(after[3].errors) :
                     IsMissing(after[3].errors[i]) =>
                       after[3].errors[i].detail =
                         JoinStrings(AbsentNames(lf.fields.items, item), ", ")

\* The object records validateFilesStep has loaded: file f of loadedFiles, item k.
LoadedRecords ==
  UNION {{[f |-> f, k |-> k] :
            k \in {h \in 1..Len(after[3].loadedFiles[f].data) :
                     after[3].loadedFiles[f].data[h].k = "obj"}} :
         f \in 1..Len(after[3].loadedFiles)}

\* The type errors recorded for item k of the file, for the named field and type.
TypeErrorsFor(errs, file, k, name, type) ==
  {i \in 1..Len(errs) :
     /\ errs[i].kind = "invalidType" /\ errs[i].scope = file /\ errs[i].index = k - 1
     /\ errs[i].detail = name /\ errs[i].expected = type}

\* C11: once validateFilesStep has acted, every loaded object record that
\* holds, in a declared field of type 'number', a value that is no finite
\* number has exactly one type error naming that field and 'number'.
C11_NumberTypeError ==
  (FilesStepActed /\ PathsDistinct) =>
    \A r \in LoadedRecords :
      LET lf == after[3].loadedFiles[r.f]
          item == lf.data[r.k]
      IN \A j \in 1..Len(lf.fields.items) :
           LET name == Get(lf.fields.items[j], "name").s
           IN (/\ Get(lf.fields.items[j], "type").s = "number"
               /\ name \in DOMAIN item.props
               /\ ~(item.props[name].k = "num" /\ item.props[name].fin))
              => Cardinality(TypeErrorsFor(after[3].errors, lf.file, r.k, name, "number")) = 1

\* The FieldRules of FileRule i that are objects with a valid name.
NamedFields(i) ==
  LET fields == Get(Rules[i], "fields").items
  IN {j \in 1..Len(fields) :
        ~NotPlainObject(fields[j]) /\ ~InvalidString(Get(fields[j], "name"))}

\* validateConfigStep has walked the FieldRules of FileRule i.
FieldsWalked(i) ==
  /\ Done(2) /\ ~ConfigLoadFails /\ ~RootOrFilesInvalid
  /\ i \in 1..Len(Rules)
  /\ ~NotPlainObject(Rules[i]) /\ ~InvalidList(Get(Rules[i], "fields"))

DuplicateErrors(i, n) ==
  {h \in 1..Len(after[2].errors) :
     after[2].errors[h] = CfgMsg("duplicateName", i - 1, -1, n)}

\* C12: once validateConfigStep has acted, for every FileRule and every valid
\* name that m of its FieldRules carry, the error list holds exactly m - 1
\* duplicate-name errors for that name in that FileRule: none for the first
\* occurrence, one for each later one.
C12_DuplicateNameErrors ==
  \A i \in 1..MaxFiles :
    FieldsWalked(i) =>
      \A j \in NamedFields(i) :
        LET n == Get(RuleFields(i)[j], "name").s
            m == Cardinality({h \in NamedFields(i) : Get(RuleFields(i)[h], "name").s = n})
        IN Cardinality(DuplicateErrors(i, n)) = m - 1

\* A FileRule whose FieldRules carry the same name three times has been
\* validated, next to a FileRule that declares that name once.
C12_Witness ==
  /\ FieldsWalked(1) /\ FieldsWalked(2)
  /\ \E n \in {"id", "a"} :
       /\ Cardinality({h \in NamedFields(1) : Get(RuleFields(1)[h], "name").s = n}) >= 3
       /\ Cardinality(DuplicateErrors(1, n)) = 2
       /\ Cardinality(DuplicateErrors(2, n)) = 0
       /\ \E h \in NamedFields(2) : Get(RuleFields(2)[h], "name").s = n

\* C13: no step of the pipeline changes a file: the config file and every
\* data file hold after each step what they held before it, also when
\* normalizeStep has rewritten address values in memory.
C13_FilesNeverWritten == [][fsys' = fsys]_vars

\* normalizeStep has rewritten an address of the first loaded file in memory,
\* and the file on disk still holds the value as it was read.
C13_Witness ==
  /\ Done(4)
  /\ Len(after[4].loadedFiles) > 0
  /\ after[4].loadedFiles[1].data # after[3].loadedFiles[1].data
  /\ RuleFile(1).value.items = after[3].loadedFiles[1].data
  /\ RuleFile(1).value.items # ctx.loadedFiles[1].data

\* normalizeStep has been called a second time, on the context its first call left.
NormalizedTwice == Len(ran) >= 5 /\ ran[5] = "normalizeStep"

\* C14: a second call of normalizeStep, on records whose address fields the
\* first call has made canonical, leaves the context as it was: no record
\* changes and no error is appended.
C14_NormalizeIdempotent ==
  NormalizedTwice => after[5] = after[4] /\ status # "crashed"

\* The first call rewrote an address, and the second call has been made.
C14_Witness ==
  /\ NormalizedTwice
  /\ after[4].loadedFiles # after[3].loadedFiles
  /\ after[5].errors = <<>>

IsPrefix(a, b) == Len(a) <= Len(b) /\ SubSeq(b, 1, Len(a)) = a

\* The position of the FieldRule named n among the FieldRules of FileRule i, 0 if none.
FieldPosition(i, n) ==
  LET at == {j \in 1..Len(RuleFields(i)) : Get(RuleFields(i)[j], "name") = Str(n)}
  IN IF at = {} THEN 0 ELSE CHOOSE j \in at : TRUE

\* Messages lo+1..hi of errs are messages about the file of FileRule i, by
\* item index and, within one item, by the declaration order of the fields.
BlockOfRule(errs, i, lo, hi) ==
  /\ \A h \in lo + 1..hi :
       /\ errs[h].scope = Get(Rules[i], "path").s
       /\ errs[h].kind \in {"invalidType", "normalize"} => FieldPosition(i, errs[h].detail) > 0
  /\ \A g, h \in lo + 1..hi :
       g < h =>
         /\ errs[g].index <= errs[h].index
         /\ errs[g].index = errs[h].index =>
              /\ errs[g].kind \in {"invalidType", "normalize"}
              /\ errs[g].kind = errs[h].kind
              /\ FieldPosition(i, errs[g].detail) < FieldPosition(i, errs[h].detail)

\* errs splits into one block per FileRule, in the declared order of the FileRules.
InDeclaredOrder(errs) ==
  \E cut \in [1..Len(Rules) -> 0..Len(errs)] :
    /\ cut[Len(Rules)] = Len(errs)
    /\ \A i \in 1..Len(Rules) :
         LET lo == IF i = 1 THEN 0 ELSE cut[i - 1]
         IN lo <= cut[i] /\ BlockOfRule(errs, i, lo, cut[i])

\* C15: no step removes or reorders a message appended before it, and the
\* messages about the data files stand in the order of file declaration,
\* then item index, then field declaration.
C15_ErrorsInProcessingOrder ==
  /\ \A i \in 1..Len(after) :
       IsPrefix(IF i = 1 THEN createContext.errors ELSE after[i - 1].errors, after[i].errors)
  /\ Len(after) > 0 => IsPrefix(after[Len(after)].errors, ctx.errors)
  /\ (Done(3) /\ after[2].errors = <<>>) => InDeclaredOrder(ctx.errors)

\* The run is over with messages about two declared files, the first
\* declared file first.
C15_Witness ==
  /\ Finished /\ Done(3) /\ after[2].errors = <<>>
  /\ Len(Rules) >= 2
  /\ \E g, h \in 1..Len(ctx.errors) :
       /\ g < h
       /\ ctx.errors[g].scope = Get(Rules[1], "path").s
       /\ ctx.errors[h].scope = Get(Rules[2], "path").s
       /\ ctx.errors[g].scope # ctx.errors[h].scope

\* normalizeStep was called on a context without errors.
NormalizerActed == Done(4) /\ after[3].errors = <<>>

\* The FieldRules of loaded file lf that normalizeStep is to canonicalize in
\* item: type address, or nullableAddress with a value that is not null.
ToCanonicalize(lf, item) ==
  {j \in 1..Len(lf.fields.items) :
     LET type == Get(lf.fields.items[j], "type").s
         value == Get(item, Get(lf.fields.items[j], "name").s)
     IN \/ type = "address"
        \/ type = "nullableAddress" /\ value.k # "null"}

\* What normalizeStep is to leave in item[key]: the canonical form when key is
\* a field to canonicalize and has one, the value as it was otherwise.
ExpectedValue(lf, item, key) ==
  IF /\ \E j \in ToCanonicalize(lf, item) : Get(lf.fields.items[j], "name").s = key
     /\ item.props[key].k = "str" /\ item.props[key].s \in DOMAIN Checksummed
  THEN Str(Checksummed[item.props[key].s])
  ELSE item.props[key]

\* The number of fields whose canonicalization fails, over the first f loaded files.
RECURSIVE FailingFields(_, _)
FailingFields(lfs, f) ==
  IF f = 0 THEN 0
  ELSE FailingFields(lfs, f - 1) +
       Cardinality({r \in (1..Len(lfs[f].data)) \X (1..Len(lfs[f].fields.items)) :
                      /\ lfs[f].data[r[1]].k = "obj"
                      /\ r[2] \in ToCanonicalize(lfs[f], lfs[f].data[r[1]])
                      /\ LET v == Get(lfs[f].data[r[1]], Get(lfs[f].fields.items[r[2]], "name").s)
                         IN ~(v.k = "str" /\ v.s \in DOMAIN Checksummed)})

\* C16: once normalizeStep has acted, the loaded files, their FieldRules and
\* the number and order of their records are as before; in every record the
\* keys are as before, every declared field of type address, and of type
\* nullableAddress unless null, holds the canonical form of its value, and
\* every other value is as it was; one 'failed to normalize' error has been
\* appended per field whose canonicalization fails, and nothing else.
C16_NormalizerFrame ==
  NormalizerActed =>
    LET pre == after[3].loadedFiles
        post == after[4].loadedFiles
    IN /\ status # "crashed"
       /\ after[4].config = after[3].config /\ after[4].stats = after[3].stats
       /\ Len(post) = Len(pre)
       /\ \A f \in 1..Len(pre) :
            /\ post[f].file = pre[f].file /\ post[f].fields = pre[f].fields
            /\ Len(post[f].data) = Len(pre[f].data)
            /\ \A k \in 1..Len(pre[f].data) :
                 IF pre[f].data[k].k # "obj" THEN post[f].data[k] = pre[f].data[k]
                 ELSE /\ post[f].data[k].k = "obj"
                      /\ DOMAIN post[f].data[k].props = DOMAIN pre[f].data[k].props
                      /\ \A key \in DOMAIN pre[f].data[k].props :
                           post[f].data[k].props[key] = ExpectedValue(pre[f], pre[f].data[k], key)
       /\ Len(after[4].errors) = FailingFields(pre, Len(pre))
       /\ \A h \in 1..Len(after[4].errors) : after[4].errors[h].kind = "normalize"

\* normalizeStep has acted on a file of three records: it rewrote the address
\* of one and left alone a record whose nullableAddress is null.
C16_Witness ==
  /\ NormalizerActed
  /\ Len(after[3].loadedFiles) = 1
  /\ LET pre == after[3].loadedFiles[1]
         post == after[4].loadedFiles[1]
     IN /\ Len(pre.data) = 3
        /\ \E j \in 1..Len(pre.fields.items) :
             /\ Get(pre.fields.items[j], "type").s = "nullableAddress"
             /\ \E k, h \in 1..3 :
                  /\ Get(pre.data[k], Get(pre.fields.items[j], "name").s) = Str(AddrLower)
                  /\ Get(post.data[k], Get(pre.fields.items[j], "name").s) = Str(AddrChecksum)
                  /\ Get(pre.data[h], Get(pre.fields.items[j], "name").s) = Null
                  /\ post.data[h] = pre.data[h]

\* C17: when the run is over, a 'failed to normalize' message in the error
\* list means that every message of the list is one: the messages of the
\* Normalizer never stand next to those of an earlier stage.
C17_NormalizeErrorsStandAlone ==
  Finished =>
    ((\E h \in 1..Len(ctx.errors) : ctx.errors[h].kind = "normalize")
       => \A h \in 1..Len(ctx.errors) : ctx.errors[h].kind = "normalize")

\* The run is over, validateFilesStep recorded an error and loaded a record
\* with an address field that getAddress rejects, normalizeStep was called,
\* and the list holds no message of the Normalizer.
C17_Witness ==
  /\ Finished /\ Done(4)
  /\ ctx.errors # <<>>
  /\ \A h \in 1..Len(ctx.errors) : ctx.errors[h].kind # "normalize"
  /\ FailingFields(after[3].loadedFiles, Len(after[3].loadedFiles)) > 0

\* The FileRules whose file exists, parses and has an array root, in declared order.
LoadingRules ==
  LET Loads(i) == RuleFileLoads(i)
  IN SelectSeq([i \in 1..Len(Rules) |-> i], Loads)

\* C18: once validateFilesStep has acted, loadedFiles is the sequence, in
\* declaration order, of exactly the declared files that exist, parse and
\* have an array root, each with its records and its FieldRules, whatever
\* errors their items produced.
C18_LoadedFilesAreTheLoadableOnes ==
  FilesStepActed =>
    after[3].loadedFiles =
      [h \in 1..Len(LoadingRules) |->
         [file |-> Get(Rules[LoadingRules[h]], "path").s,
          data |-> RuleFile(LoadingRules[h]).value.items,
          fields |-> Get(Rules[LoadingRules[h]], "fields")]]

\* The declared fields of the loaded file whose validator rejects the value item holds.
RejectedFields(lf, item) ==
  {j \in 1..Len(lf.fields.items) :
     ~typeValidators(Get(lf.fields.items[j], "type").s,
                     Get(item, Get(lf.fields.items[j], "name").s))}

\* C19: once validateFilesStep has acted, every loaded object record that
\* holds all declared fields has as many type errors as it has declared
\* fields whose validator rejects the value: one for each of them, naming the
\* field and its type.
C19_OneTypeErrorPerFailingField ==
  (FilesStepActed /\ PathsDistinct) =>
    \A r \in LoadedRecords :
      LET lf == after[3].loadedFiles[r.f]
          item == lf.data[r.k]
          OfRecord(m) == m.kind = "invalidType" /\ m.scope = lf.file /\ m.index = r.k - 1
      IN Len(AbsentNames(lf.fields.items, item)) = 0 =>
           /\ CountMsgs(after[3].errors, OfRecord) = Cardinality(RejectedFields(lf, item))
           /\ \A j \in RejectedFields(lf, item) :
                Cardinality(TypeErrorsFor(after[3].errors, lf.file, r.k,
                                          Get(lf.fields.items[j], "name").s,
                                          Get(lf.fields.items[j], "type").s)) = 1

\* The number of messages of the kind that validateConfigStep recorded for
\* FileRule i (fieldIndex -1) or for FieldRule j of it (fieldIndex j - 1).
ConfigErrors(kind, i, fieldIndex) ==
  Cardinality({h \in 1..Len(after[2].errors) :
                 /\ after[2].errors[h].scope = "config"
                 /\ after[2].errors[h].kind = kind
                 /\ after[2].errors[h].index = i - 1
                 /\ after[2].errors[h].fieldIndex = fieldIndex})

OneIf(b) == IF b THEN 1 ELSE 0

\* C20: once validateConfigStep has walked the FileRules, every FileRule and
\* every FieldRule has the errors of all its own violations, whatever the
\* FileRules and FieldRules before it hold: a FileRule that is no object has
\* its one error and nothing else; otherwise an invalid path and an invalid
\* fields list are each reported; with a valid fields list, a FieldRule that
\* is no object has its one error and nothing else, and otherwise an invalid
\* name and an invalid type are each reported.
C20_ConfigErrorsAccumulate ==
  (Done(2) /\ ~ConfigLoadFails /\ ~RootOrFilesInvalid) =>
    \A i \in 1..Len(Rules) :
      LET entry == Rules[i]
          OfFields == {"fieldNotObject", "fieldName", "fieldType"}
      IN IF NotPlainObject(entry)
         THEN /\ ConfigErrors("entryNotObject", i, -1) = 1
              /\ \A h \in 1..Len(after[2].errors) :
                   after[2].errors[h].index = i - 1 => after[2].errors[h].kind = "entryNotObject"
         ELSE /\ ConfigErrors("entryNotObject", i, -1) = 0
              /\ ConfigErrors("entryPath", i, -1) = OneIf(InvalidString(Get(entry, "path")))
              /\ ConfigErrors("entryFields", i, -1) = OneIf(InvalidList(Get(entry, "fields")))
              /\ IF InvalidList(Get(entry, "fields"))
                 THEN \A h \in 1..Len(after[2].errors) :
                        after[2].errors[h].index = i - 1 =>
                          after[2].errors[h].kind \in {"entryPath", "entryFields"}
                 ELSE \A j \in 1..Len(Get(entry, "fields").items) :
                        LET field == Get(entry, "fields").items[j]
                        IN IF NotPlainObject(field)
                           THEN /\ ConfigErrors("fieldNotObject", i, j - 1) = 1
                                /\ ConfigErrors("fieldName", i, j - 1) = 0
                                /\ ConfigErrors("fieldType", i, j - 1) = 0
                           ELSE /\ ConfigErrors("fieldNotObject", i, j - 1) = 0
                                /\ ConfigErrors("fieldName", i, j - 1) =
                                     OneIf(InvalidString(Get(field, "name")))
                                /\ ConfigErrors("fieldType", i, j - 1) =
                                     OneIf(InvalidType(Get(field, "type")))

\* validateConfigStep has reported, for a first FileRule with an invalid path,
\* the path and both the name and the type of its FieldRule, and an error of
\* the FileRule after it.
C20_Witness ==
  /\ Done(2) /\ ~ConfigLoadFails /\ ~RootOrFilesInvalid
  /\ Len(Rules) >= 2
  /\ ConfigErrors("entryPath", 1, -1) = 1
  /\ ConfigErrors("fieldName", 1, 0) = 1
  /\ ConfigErrors("fieldType", 1, 0) = 1
  /\ \E h \in 1..Len(after[2].errors) : after[2].errors[h].index = 1

\* The text of the messages of an error list of the pipeline.
Rendered(errs) == [i \in 1..Len(errs) |-> Render(errs[i])]

\* C21: for every config document that loads, once both programs have run on
\* the same files, the error list of the pipeline after validateFilesStep
\* is, text for text and in the same order, the error list of the original
\* script, which the original prints when it is not empty; a TypeError
\* leaves validateFilesStep exactly when it ends the original; and after a
\* config error neither program has looked at a data file.
C21_PipelineMirrorsOriginal ==
  (orig # OriginalNotRun /\ ~ConfigLoadFails) =>
    /\ Done(3)
    /\ orig.errors = Rendered(after[3].errors)
    /\ IF Len(ran) = 3
       THEN status = "crashed" /\ orig.status = "crashed"
       ELSE /\ orig.status = IF after[3].errors = <<>> THEN "returned" ELSE "exited"
            /\ orig.stderr =
                 IF after[3].errors = <<>> THEN <<>>
                 ELSE <<"JSON validation failed:">>
                        \o [i \in 1..Len(after[3].errors) |-> "- " \o Render(after[3].errors[i])]
    /\ after[2].errors # <<>> => probed = <<>> /\ orig.probed = <<>>

\* Both programs have run on a config that loads and have recorded the same
\* two or more messages about data items, one of them a type error with an
\* id hint.
C21_Witness ==
  /\ orig.status = "exited" /\ ~ConfigLoadFails /\ Done(3) /\ after[2].errors = <<>>
  /\ Len(orig.errors) >= 2
  /\ orig.errors = Rendered(after[3].errors)
  /\ \E h \in 1..Len(after[3].errors) :
       after[3].errors[h].kind = "invalidType" /\ after[3].errors[h].idHint # ""

====
